---- MODULE Spec2Model ----
(***************************************************************************)
(* Model of hub_model_code/diarization_utils.py: the merging of            *)
(* consecutive same-speaker diarization segments (diarize_audio, lines     *)
(* 54-87) and the nearest-end-timestamp alignment of speaker turns with    *)
(* ASR chunks (post_process_segments_and_transcripts, lines 90-127).       *)
(*                                                                         *)
(* Timestamps are seconds on an integer grid 0..MaxTime. Sequences are     *)
(* 1-based here; the Python indices (i, upto_idx) keep their 0-based       *)
(* values, so Python's xs[k] is xs[k + 1] below.                           *)
(* A chunk's text is a sequence of tokens; chunk k of the input carries    *)
(* the one-token text <<k>>, so that "".join is real concatenation and a   *)
(* dropped or repeated chunk shows in the joined text.                     *)
(***************************************************************************)
EXTENDS Integers, Sequences, FiniteSets

VARIABLES
    segments,          \* diarize_audio: raw segments read from the pipeline
    prev_segment,      \* diarize_audio: first segment of the current run
    cur_segment,       \* diarize_audio: segment under the loop index
    i,                 \* diarize_audio: loop index of line 59 (0-based)
    new_segments,      \* merged turns (built by diarize_audio, read by post_process)
    asr_chunks,        \* the caller's transcript list (asr_outputs["chunks"])
    group_by_speaker,  \* post_process: output mode
    transcript,        \* post_process: the local name, re-bound to the cropped list
    end_timestamps,    \* post_process: effective ends of the remaining chunks
    segmented_preds,   \* post_process: the output list
    seg_idx,           \* post_process: number of turns the for loop has consumed
    upto_idx,          \* post_process: the cut index of the current turn (0-based)
    pc                 \* position in the function being run

vars == <<segments, prev_segment, cur_segment, i, new_segments, asr_chunks,
          group_by_speaker, transcript, end_timestamps, segmented_preds,
          seg_idx, upto_idx, pc>>

mergeVars == <<segments, prev_segment, cur_segment, i>>
alignVars == <<asr_chunks, group_by_speaker, transcript, end_timestamps,
               segmented_preds, seg_idx, upto_idx>>

\* ---------------------------------------------------------------- bounds
MaxTime == 2
MaxSegs == 3
MaxTurns == 2
MaxChunks == 3

\* chunk["timestamp"][-1] is None: an open-ended chunk
None == -1
\* sys.float_info.max, the sentinel that replaces None
FloatMax == 1000000

Labels == {"A", "B"}
Times == 0 .. MaxTime
NoSegment == [segment |-> [start |-> 0, end |-> 0], track |-> 0, label |-> "A"]

\* ---------------------------------------------------------------- inputs
Intervals == {iv \in [start : Times, end : Times] : iv.start <= iv.end}

\* one raw segment sequence as the pipeline yields it (lines 44-52): the k-th
\* track with interval f[k][1] and label f[k][2]
RawSegments(f, n) ==
    [k \in 1 .. n |-> [segment |-> f[k][1], track |-> k, label |-> f[k][2]]]

RECURSIVE Chains(_, _)
\* the non-decreasing sequences of n times, none below lo
Chains(n, lo) ==
    IF n = 0 THEN {<<>>}
    ELSE UNION {{<<t>> \o c : c \in Chains(n - 1, t)} : t \in lo .. MaxTime}

\* speaker turns: start <= end, ordered, consecutive turns not overlapping
TurnSeqs ==
    UNION {{[k \in 1 .. n |-> [segment |-> [start |-> c[2 * k - 1], end |-> c[2 * k]],
                               speaker |-> sp[k]]] :
               c \in Chains(2 * n, 0), sp \in [1 .. n -> Labels]} : n \in 0 .. MaxTurns}

\* ASR chunks: ordered, not overlapping; only the final chunk may be open-ended
ChunkSeqs ==
    UNION {{[k \in 1 .. n |->
                [text |-> <<k>>,
                 timestamp |-> <<c[2 * k - 1],
                                 IF k = n /\ open THEN None ELSE c[2 * k]>>]] :
               c \in Chains(2 * n, 0), open \in BOOLEAN} : n \in 0 .. MaxChunks}

\* ---------------------------------------------------------------- diarize_audio
SpeakerChangedSelf(cur, prev) == cur.label # cur.label
\* line 63: cur_segment["label"] != prev_segment["label"] and i < len(segments)
SpeakerChanged(cur, prev) == cur.label # prev.label

ClosedTurnOwnEnd(prev, cur) ==
    [segment |-> [start |-> prev.segment.start, end |-> prev.segment.end],
     speaker |-> prev.label]
\* lines 65-73: the turn closed on a speaker change
ClosedTurn(prev, cur) ==
    [segment |-> [start |-> prev.segment.start, end |-> cur.segment.start],
     speaker |-> prev.label]

FinalTurnRunEnd(prev, cur) ==
    [segment |-> [start |-> prev.segment.start, end |-> prev.segment.end],
     speaker |-> prev.label]
\* lines 77-85: the turn flushed after the scan
FinalTurn(prev, cur) ==
    [segment |-> [start |-> prev.segment.start, end |-> cur.segment.end],
     speaker |-> prev.label]

\* lines 56-57: new_segments = []; prev_segment = cur_segment = segments[0]
MergeStart ==
    /\ pc = "merge_start"
    /\ IF Len(segments) = 0
       THEN /\ pc' = "merge_error"            \* IndexError
            /\ UNCHANGED <<prev_segment, cur_segment, i, new_segments>>
       ELSE /\ prev_segment' = segments[1]
            /\ cur_segment' = segments[1]
            /\ new_segments' = <<>>
            /\ i' = 1
            /\ pc' = "merge_loop"
    /\ UNCHANGED <<segments, alignVars>>

\* lines 59-74: one iteration of the scan
MergeStep ==
    /\ pc = "merge_loop"
    /\ i < Len(segments)
    /\ cur_segment' = segments[i + 1]
    /\ IF SpeakerChanged(segments[i + 1], prev_segment) /\ i < Len(segments)
       THEN /\ new_segments' =
                   Append(new_segments, ClosedTurn(prev_segment, segments[i + 1]))
            /\ prev_segment' = segments[i + 1]
       ELSE UNCHANGED <<new_segments, prev_segment>>
    /\ i' = i + 1
    /\ UNCHANGED <<segments, pc, alignVars>>

\* lines 77-87: flush the last run and return
MergeFlush ==
    /\ pc = "merge_loop"
    /\ i = Len(segments)
    /\ new_segments' = Append(new_segments, FinalTurn(prev_segment, cur_segment))
    /\ pc' = "merge_done"
    /\ UNCHANGED <<segments, prev_segment, cur_segment, i, alignVars>>

InitMerge ==
    /\ \E n \in 0 .. MaxSegs :
          \E f \in [1 .. n -> Intervals \X Labels] : segments = RawSegments(f, n)
    /\ prev_segment = NoSegment
    /\ cur_segment = NoSegment
    /\ i = 0
    /\ new_segments = <<>>
    /\ asr_chunks = <<>>
    /\ group_by_speaker = FALSE
    /\ transcript = <<>>
    /\ end_timestamps = <<>>
    /\ segmented_preds = <<>>
    /\ seg_idx = 0
    /\ upto_idx = 0
    /\ pc = "merge_start"

NextMerge == MergeStart \/ MergeStep \/ MergeFlush

SpecMerge == InitMerge /\ [][NextMerge]_vars

\* ---------------------------------------------------------------- post_process
\* line 93: timestamp[-1] if it is not None else sys.float_info.max
EffectiveEnd(chunk) ==
    IF chunk.timestamp[2] # None THEN chunk.timestamp[2] ELSE FloatMax

\* line 101: one element of np.abs(end_timestamps - end_time); in double
\* precision sys.float_info.max minus a timestamp rounds to sys.float_info.max
AbsDiff(e, t) ==
    IF e = FloatMax THEN FloatMax ELSE IF e >= t THEN e - t ELSE t - e

NpArgminLast(arr) ==
    CHOOSE k \in 0 .. Len(arr) - 1 :
        /\ \A j \in 1 .. Len(arr) : arr[k + 1] <= arr[j]
        /\ \A j \in k + 2 .. Len(arr) : arr[j] > arr[k + 1]
\* line 101: np.argmin, the first index (0-based) holding the minimum
NpArgmin(arr) ==
    CHOOSE k \in 0 .. Len(arr) - 1 :
        /\ \A j \in 1 .. Len(arr) : arr[k + 1] <= arr[j]
        /\ \A j \in 1 .. k : arr[j] > arr[k + 1]

RECURSIVE Join(_)
\* line 107: "".join(texts)
Join(texts) == IF texts = <<>> THEN <<>> ELSE Head(texts) \o Join(Tail(texts))

AttributedShort(tr, upto) == SubSeq(tr, 1, upto)
\* lines 108, 117: transcript[: upto_idx + 1], the chunks of range(upto_idx + 1)
Attributed(tr, upto) == SubSeq(tr, 1, upto + 1)

GroupedSegmentFirstStart(segment, tr, upto) ==
    [speaker |-> segment.speaker,
     text |-> Join([k \in 1 .. Len(Attributed(tr, upto)) |-> Attributed(tr, upto)[k].text]),
     timestamp |-> <<asr_chunks[1].timestamp[1], tr[upto + 1].timestamp[2]>>]
\* lines 104-115: the segment emitted in grouped mode
GroupedSegment(segment, tr, upto) ==
    [speaker |-> segment.speaker,
     text |-> Join([k \in 1 .. Len(Attributed(tr, upto)) |-> Attributed(tr, upto)[k].text]),
     timestamp |-> <<tr[1].timestamp[1], tr[upto + 1].timestamp[2]>>]

\* line 118: {"speaker": segment["speaker"], **transcript[i]}
LabelledChunk(segment, chunk) ==
    [speaker |-> segment.speaker, text |-> chunk.text, timestamp |-> chunk.timestamp]

CropKeepCut(xs, upto) == SubSeq(xs, upto + 1, Len(xs))
\* lines 121-122: xs[upto_idx + 1:]
Crop(xs, upto) == SubSeq(xs, upto + 2, Len(xs))

LoopBreakNever(ets) == FALSE
\* line 124: if len(end_timestamps) == 0: break
LoopBreak(ets) == Len(ets) = 0

\* lines 92-94: the effective ends and the empty output
AlignStart ==
    /\ pc = "align_start"
    /\ transcript' = asr_chunks
    /\ end_timestamps' = [k \in 1 .. Len(asr_chunks) |-> EffectiveEnd(asr_chunks[k])]
    /\ segmented_preds' = <<>>
    /\ seg_idx' = 0
    /\ pc' = "align_for"
    /\ UNCHANGED <<mergeVars, new_segments, asr_chunks, group_by_speaker, upto_idx>>

\* lines 97-101: take the next turn and find its cut index
AlignFind ==
    /\ pc = "align_for"
    /\ seg_idx < Len(new_segments)
    /\ IF Len(end_timestamps) = 0
       THEN /\ pc' = "align_error"            \* np.argmin of an empty array: ValueError
            /\ UNCHANGED upto_idx
       ELSE /\ upto_idx' =
                   NpArgmin([k \in 1 .. Len(end_timestamps) |->
                       AbsDiff(end_timestamps[k], new_segments[seg_idx + 1].segment.end)])
            /\ pc' = "align_emit"
    /\ UNCHANGED <<mergeVars, new_segments, asr_chunks, group_by_speaker, transcript,
                   end_timestamps, segmented_preds, seg_idx>>

\* lines 103-125: emit for the turn, crop, and leave the loop when nothing remains
AlignEmit ==
    /\ pc = "align_emit"
    /\ segmented_preds' =
          IF group_by_speaker
          THEN Append(segmented_preds,
                      GroupedSegment(new_segments[seg_idx + 1], transcript, upto_idx))
          ELSE segmented_preds \o
                  [k \in 1 .. Len(Attributed(transcript, upto_idx)) |->
                      LabelledChunk(new_segments[seg_idx + 1],
                                    Attributed(transcript, upto_idx)[k])]
    /\ transcript' = Crop(transcript, upto_idx)
    /\ end_timestamps' = Crop(end_timestamps, upto_idx)
    /\ seg_idx' = seg_idx + 1
    /\ pc' = IF LoopBreak(Crop(end_timestamps, upto_idx)) THEN "align_done" ELSE "align_for"
    /\ UNCHANGED <<mergeVars, new_segments, asr_chunks, group_by_speaker, upto_idx>>

AlignReturnRaises ==
    /\ pc = "align_for"
    /\ seg_idx = Len(new_segments)
    /\ pc' = IF Len(new_segments) = 0 THEN "align_error" ELSE "align_done"
    /\ UNCHANGED <<mergeVars, new_segments, alignVars>>
\* lines 97, 127: the turns are exhausted; return segmented_preds
AlignReturn ==
    /\ pc = "align_for"
    /\ seg_idx = Len(new_segments)
    /\ pc' = "align_done"
    /\ UNCHANGED <<mergeVars, new_segments, alignVars>>

InitAlign ==
    /\ segments = <<>>
    /\ prev_segment = NoSegment
    /\ cur_segment = NoSegment
    /\ i = 0
    /\ new_segments \in TurnSeqs
    /\ asr_chunks \in ChunkSeqs
    /\ group_by_speaker \in BOOLEAN
    /\ transcript = asr_chunks
    /\ end_timestamps = <<>>
    /\ segmented_preds = <<>>
    /\ seg_idx = 0
    /\ upto_idx = 0
    /\ pc = "align_start"

NextAlign == AlignStart \/ AlignFind \/ AlignEmit \/ AlignReturn

SpecAlign == InitAlign /\ [][NextAlign]_vars

\* ---------------------------------------------------------------- merge properties
NumSegs == Len(segments)

\* the positions (1-based) at which a run of equal labels begins
RunStarts ==
    {k \in 1 .. NumSegs : k = 1 \/ segments[k].label # segments[k - 1].label}

\* the position at which the j-th run begins
RunStart(j) ==
    CHOOSE k \in RunStarts : Cardinality({r \in RunStarts : r <= k}) = j

\* C5: each merged turn starts at the start of the first segment of its run;
\* a non-final turn ends at the start of the first segment of the next run,
\* the final turn at the end of the last raw segment of the input.
MergeIntervalRule ==
    pc = "merge_done" =>
        /\ Len(new_segments) = Cardinality(RunStarts)
        /\ \A j \in 1 .. Len(new_segments) :
              /\ new_segments[j].segment.start = segments[RunStart(j)].segment.start
              /\ j < Len(new_segments) =>
                    new_segments[j].segment.end = segments[RunStart(j + 1)].segment.start
              /\ j = Len(new_segments) =>
                    new_segments[j].segment.end = segments[NumSegs].segment.end

\* a first turn that ends after the end of its own last segment, and a final
\* run of two segments whose turn ends where the second one ends
MergeIntervalWitness ==
    /\ pc = "merge_done"
    /\ NumSegs = 3
    /\ Len(new_segments) = 2
    /\ segments[1].label = segments[2].label
    /\ new_segments[1].segment.end # segments[2].segment.end
    /\ new_segments[2].segment.end = segments[3].segment.end

\* C6: the number of merged turns is one plus the number of positions whose
\* label differs from the label of the position before.
MergeTurnCount ==
    pc = "merge_done" =>
        Len(new_segments) =
            1 + Cardinality({k \in 2 .. NumSegs : segments[k].label # segments[k - 1].label})

MergeTurnCountWitness ==
    /\ pc = "merge_done"
    /\ NumSegs = 3
    /\ Len(new_segments) = 3

RawSegmentsOrdered ==
    /\ \A k \in 1 .. NumSegs : segments[k].segment.start <= segments[k].segment.end
    /\ \A k \in 2 .. NumSegs : segments[k - 1].segment.start <= segments[k].segment.start

\* C8: for raw segments with non-decreasing starts and start <= end, no two
\* adjacent turns share a speaker, turn starts are non-decreasing, every turn
\* has start <= end, and no turn ends after the start of the next turn.
SpeakerTurnInvariant ==
    (pc = "merge_done" /\ RawSegmentsOrdered) =>
        /\ \A j \in 1 .. Len(new_segments) :
              new_segments[j].segment.start <= new_segments[j].segment.end
        /\ \A j \in 2 .. Len(new_segments) :
              /\ new_segments[j - 1].speaker # new_segments[j].speaker
              /\ new_segments[j - 1].segment.start <= new_segments[j].segment.start
              /\ new_segments[j - 1].segment.end <= new_segments[j].segment.start

\* ordered raw segments that overlap in time, merged into two turns
SpeakerTurnWitness ==
    /\ pc = "merge_done"
    /\ RawSegmentsOrdered
    /\ Len(new_segments) = 2
    /\ \E k \in 2 .. NumSegs :
          /\ segments[k].label # segments[k - 1].label
          /\ segments[k].segment.start < segments[k - 1].segment.end

\* ---------------------------------------------------------------- alignment properties
NumChunks == Len(asr_chunks)
NumTurns == Len(new_segments)

\* an output record of per-chunk mode without its speaker field
StripSpeaker(p) == [text |-> p.text, timestamp |-> p.timestamp]

\* the places of the output where input chunk k appears
PerChunkPlaces(k) ==
    {j \in 1 .. Len(segmented_preds) : StripSpeaker(segmented_preds[j]) = asr_chunks[k]}

\* the places of the grouped texts where the text of input chunk k appears
GroupedPlaces(k) ==
    {gp \in (1 .. Len(segmented_preds)) \X (1 .. NumChunks) :
        /\ gp[2] <= Len(segmented_preds[gp[1]].text)
        /\ segmented_preds[gp[1]].text[gp[2]] = asr_chunks[k].text[1]}

EveryChunkOnce ==
    \A k \in 1 .. NumChunks :
        IF group_by_speaker
        THEN Cardinality(GroupedPlaces(k)) = 1
        ELSE Cardinality(PerChunkPlaces(k)) = 1

FiniteEnds == \A k \in 1 .. NumChunks : asr_chunks[k].timestamp[2] # None

TurnsCoverTranscript ==
    /\ NumTurns > 0
    /\ NumChunks > 0
    /\ FiniteEnds
    /\ new_segments[1].segment.start <= asr_chunks[1].timestamp[1]
    /\ new_segments[NumTurns].segment.end >= asr_chunks[NumChunks].timestamp[2]

StrictlyIncreasingEnds ==
    \A k \in 2 .. NumChunks : asr_chunks[k - 1].timestamp[2] < asr_chunks[k].timestamp[2]

\* C1 as stated: when the turns cover the transcript's time range, every
\* input chunk is attributed exactly once.
AlignmentCoverageAsStated ==
    (pc = "align_done" /\ TurnsCoverTranscript) => EveryChunkOnce

\* C1, amended: when the turns cover the transcript's time range and the
\* chunk ends are strictly increasing, every input chunk is attributed
\* exactly once (per-chunk records or grouped texts).
AlignmentCoverage ==
    (pc = "align_done" /\ TurnsCoverTranscript /\ StrictlyIncreasingEnds) => EveryChunkOnce

\* three chunks with increasing ends shared out over two covering turns
AlignmentCoverageWitness ==
    /\ pc = "align_done"
    /\ TurnsCoverTranscript
    /\ StrictlyIncreasingEnds
    /\ NumChunks = 3
    /\ seg_idx = 2
    /\ Len(segmented_preds) = IF group_by_speaker THEN 2 ELSE 3

\* the input chunks whose texts make up a grouped segment: first and last
FirstOf(p) == asr_chunks[p.text[1]]
LastOf(p) == asr_chunks[p.text[Len(p.text)]]

\* C2 as stated: every grouped segment starts at the start of chunk 0 of the
\* input transcript and ends at the end of the chunk at its cut index.
GroupedStartIsTranscriptStart ==
    group_by_speaker =>
        \A j \in 1 .. Len(segmented_preds) :
            /\ Len(segmented_preds[j].text) > 0
            /\ segmented_preds[j].timestamp[1] = asr_chunks[1].timestamp[1]
            /\ segmented_preds[j].timestamp[2] = LastOf(segmented_preds[j]).timestamp[2]

\* C2, amended: every grouped segment starts at the start of the first chunk
\* attributed to its own turn and ends at the original end (None included)
\* of the chunk at its cut index, the last chunk attributed to it.
GroupedTimestamps ==
    group_by_speaker =>
        \A j \in 1 .. Len(segmented_preds) :
            /\ Len(segmented_preds[j].text) > 0
            /\ segmented_preds[j].timestamp[1] = FirstOf(segmented_preds[j]).timestamp[1]
            /\ segmented_preds[j].timestamp[2] = LastOf(segmented_preds[j]).timestamp[2]

\* a second grouped segment that starts later than the transcript does
GroupedTimestampsWitness ==
    /\ group_by_speaker
    /\ pc = "align_done"
    /\ Len(segmented_preds) = 2
    /\ segmented_preds[2].timestamp[1] # asr_chunks[1].timestamp[1]
    /\ segmented_preds[2].timestamp[1] = FirstOf(segmented_preds[2]).timestamp[1]

\* C3: in per-chunk mode, once the working set is empty the loop is left
\* without an error, whatever turns remain; the output then holds exactly as
\* many records as the transcript has chunks, all from the processed turns.
EarlyExit ==
    /\ (pc \in {"align_for", "align_emit", "align_error"} /\ seg_idx >= 1) =>
           (Len(transcript) > 0 /\ pc # "align_error")
    /\ (~group_by_speaker /\ pc = "align_done" /\ seg_idx < NumTurns) =>
           /\ Len(transcript) = 0
           /\ Len(segmented_preds) = NumChunks
           /\ \A j \in 1 .. Len(segmented_preds) :
                 \E t \in 1 .. seg_idx :
                     segmented_preds[j].speaker = new_segments[t].speaker

\* the transcript is used up by the first of two turns
EarlyExitWitness ==
    /\ ~group_by_speaker
    /\ pc = "align_done"
    /\ seg_idx = 1
    /\ NumTurns = 2
    /\ NumChunks >= 2
    /\ Len(segmented_preds) = NumChunks

Distance(k) ==
    AbsDiff(EffectiveEnd(transcript[k]), new_segments[seg_idx + 1].segment.end)

\* C7: the cut index of a turn is the lowest index among the remaining chunks
\* whose effective end is closest to the turn's end; of two equidistant
\* chunks the earlier one is the cut point.
TieBreakLowestIndex ==
    pc = "align_emit" =>
        /\ upto_idx + 1 \in 1 .. Len(transcript)
        /\ \A k \in 1 .. Len(transcript) : Distance(upto_idx + 1) <= Distance(k)
        /\ \A k \in 1 .. upto_idx : Distance(k) > Distance(upto_idx + 1)

\* a later remaining chunk is exactly as close to the turn's end as the cut
TieBreakWitness ==
    /\ pc = "align_emit"
    /\ seg_idx >= 1
    /\ \E k \in upto_idx + 2 .. Len(transcript) : Distance(k) = Distance(upto_idx + 1)

\* the working set is the input without its first chunks
WorkingSetIsSuffix ==
    /\ Len(transcript) <= NumChunks
    /\ transcript = SubSeq(asr_chunks, NumChunks - Len(transcript) + 1, NumChunks)

\* the per-chunk output is the start of the input, labelled turn after turn
OutputIsLabelledPrefix ==
    /\ Len(segmented_preds) <= NumChunks
    /\ \A j \in 1 .. Len(segmented_preds) :
          StripSpeaker(segmented_preds[j]) = asr_chunks[j]
    /\ \E f \in [1 .. Len(segmented_preds) -> 1 .. seg_idx] :
          /\ \A j \in 1 .. Len(segmented_preds) :
                segmented_preds[j].speaker = new_segments[f[j]].speaker
          /\ \A j \in 2 .. Len(segmented_preds) : f[j - 1] <= f[j]

\* C9: the working set is always a suffix of the input and is strictly
\* smaller after every processed turn; the per-chunk output without speakers
\* is a prefix of the input, in order, and the turn indices of its speakers
\* are non-decreasing.
MonotonicConsumption ==
    /\ [](WorkingSetIsSuffix /\ (~group_by_speaker => OutputIsLabelledPrefix))
    /\ [][pc = "align_emit" =>
             /\ Len(transcript') < Len(transcript)
             /\ Len(transcript') + Len(segmented_preds') = NumChunks \/ group_by_speaker]_vars

\* two turns processed, chunks left over, output labelled by both turns
MonotonicConsumptionWitness ==
    /\ ~group_by_speaker
    /\ pc = "align_done"
    /\ seg_idx = 2
    /\ Len(transcript) = 1
    /\ Len(segmented_preds) = 2
    /\ segmented_preds[1].speaker # segmented_preds[2].speaker

AttributedAtLeastOne ==
    /\ pc = "align_emit" => Len(Attributed(transcript, upto_idx)) >= 1
    /\ group_by_speaker =>
          /\ Len(segmented_preds) = seg_idx
          /\ \A j \in 1 .. Len(segmented_preds) : Len(segmented_preds[j].text) >= 1
    /\ ~group_by_speaker => Len(segmented_preds) >= seg_idx

ProcessedTurnsBound ==
    /\ seg_idx >= 1
    /\ seg_idx <= NumTurns
    /\ seg_idx <= NumChunks

====
